---- MODULE Spec2Model ----
(***************************************************************************)
(* Model of the Couchbase store for zotero-sync (src/src/index.ts):        *)
(* Store (registry of libraries, lazy connection), Library (provisioning   *)
(* of the scope / collections / primary indexes, metadata load, CRUD and   *)
(* save) and the two provisioning helpers createCbCollection and           *)
(* createPrimaryIndex, running against a Couchbase bucket whose scopes,    *)
(* collections, indexes and documents are shared by all sessions.          *)
(*                                                                         *)
(* Every `await` of a driver call or of a timer is one step of a task;     *)
(* the code between two awaits runs atomically (single JS thread).         *)
(***************************************************************************)
EXTENDS Integers, Sequences, FiniteSets, TLC

\* ------------------------------------------------------------------ bounds
MaxOps      == 3      \* Store/Library calls issued per task
MaxFaults   == 1      \* driver calls the bucket answers with a failure
MaxVersion  == 1      \* library versions 0..MaxVersion
MaxContent  == 2      \* distinct document bodies 1..MaxContent
ShortTimeout == 50    \* a configured timeout below one polling interval
LongTimeout  == 250   \* a configured timeout of a few polling intervals
MaxIdLen     == 2     \* digits of the numeric id of a library identifier

\* ------------------------------------------------------- program constants
SleepInterval  == 100     \* setTimeout(resolve, 100)
DefaultTimeout == 5000    \* options.timeout || 5000

Tasks  == {1, 2}     \* asynchronous callers (sessions / concurrent calls)
Stores == {1, 2}

\* Library identifiers are strings; they are kept as tuples of characters
\* so that the scope name can be computed the way the code computes it.
UserLib  == <<"u","s","e","r","s","/","1">>
GroupLib == <<"g","r","o","u","p","s","/","4","2">>
LibIds   == {UserLib, GroupLib}

Keys        == {"A", "B"}
KeyBatches  == {<<"A">>, <<"B", "A">>}
Contents    == 1..MaxContent
Versions    == 0..MaxVersion
GroupName   == "Foo"
SaveNames   == {"", GroupName}
CustomUserLibraryName  == "Mine"
DefaultUserLibraryName == "User library"
TimeoutOptions == {ShortTimeout, LongTimeout}

\* synchronizedObjectTypes.concat("meta")
collectionNames == <<"items", "collections", "meta">>
CollectionNameSet == {collectionNames[i] : i \in 1..Len(collectionNames)}

\* ------------------------------------------------------ string operations
MatchAt(s, i, p) ==
    /\ i + Len(p) - 1 <= Len(s)
    /\ \A j \in 1..Len(p) : s[i + j - 1] = p[j]

\* String.prototype.replace with a non-global pattern that is an
\* alternation of literals: the leftmost match is replaced by "", and at
\* that position the first alternative that matches is taken.
ReplaceFirst(s, alternatives) ==
    LET hits == {i \in 1..Len(s) :
                    \E a \in 1..Len(alternatives) : MatchAt(s, i, alternatives[a])}
    IN  IF hits = {} THEN s
        ELSE LET i == CHOOSE h \in hits : \A g \in hits : h <= g
                 a == CHOOSE b \in 1..Len(alternatives) :
                        /\ MatchAt(s, i, alternatives[b])
                        /\ \A c \in 1..(b - 1) : ~MatchAt(s, i, alternatives[c])
             IN  SubSeq(s, 1, i - 1) \o SubSeq(s, i + Len(alternatives[a]), Len(s))

\* (variant: the whole prefix is stripped, the letter of the kind included)
createScopeNameWithoutKind(user_or_group_prefix) ==
    ReplaceFirst(user_or_group_prefix,
                 << <<"g","r","o","u","p","s","/">>, <<"u","s","e","r","s","/">> >>)

createScopeNameFromPrefixImpl(user_or_group_prefix) ==
    ReplaceFirst(
        ReplaceFirst(user_or_group_prefix,
                     << <<"r","o","u","p","s","/">>, <<"s","e","r","s","/">> >>),
        << <<"/">> >>)

createScopeNameFromPrefix(user_or_group_prefix) ==
    createScopeNameFromPrefixImpl(user_or_group_prefix)

ScopeNames == {createScopeNameFromPrefix(id) : id \in LibIds}

\* String.prototype.startsWith
startsWith(s, p) == MatchAt(s, 1, p)

\* return this.user_or_group_prefix.startsWith("/users") ? "user" : "group"
getType(user_or_group_prefix) ==
    IF startsWith(user_or_group_prefix, <<"/","u","s","e","r","s">>)
    THEN "user" ELSE "group"

\* The identifiers of the Zotero API: users/<id> and groups/<id> with a
\* numeric id.
Digits     == {"0", "1", "9"}
NumericIds == UNION {[1..n -> Digits] : n \in 1..MaxIdLen}
UserId(n)  == <<"u","s","e","r","s","/">> \o n
GroupId(n) == <<"g","r","o","u","p","s","/">> \o n
Identifiers == {UserId(n) : n \in NumericIds} \cup {GroupId(n) : n \in NumericIds}

\* ------------------------------------------------------------------- state
VARIABLES
    \* the Couchbase bucket
    scopes,      \* set of scope names that exist
    colls,       \* [scope, collection] -> "none" | "creating" | "live"
    indexes,     \* [scope, collection] -> "none" | "building" | "online"
    docs,        \* set of documents [scope, coll, key, content]
    faults,      \* number of driver calls answered with a failure so far
    \* each Store
    options,     \* StoreOptions after the constructor
    timeout,     \* Store.timeout
    libraries,   \* Store.libraries
    cluster,     \* Store.cluster: 0 (unset) or the handle connect() returned
    connects,    \* number of completed couchbase.connect calls
    \* each task (an asynchronous caller of one Store)
    storeOf,     \* the Store the task calls
    pc,          \* position of the task: "idle", "off" or the pending await
    call,        \* the call in progress, or the last one with its outcome
    prev,        \* the call before it, with the Library held when it ended
    lib,         \* the Library the caller holds (returned by Store.get)
    self,        \* the Library under construction in Store.get / init
    frame,       \* locals: loop index, elapsed time, handle, keys left
    nops         \* number of calls issued

dbVars    == <<scopes, colls, indexes, docs>>
cfgVars   == <<options, timeout, storeOf>>
storeVars == <<libraries, cluster, connects>>
taskVars  == <<pc, call, prev, lib, self, frame, nops>>
vars == <<scopes, colls, indexes, docs, faults, options, timeout, libraries,
          cluster, connects, storeOf, pc, call, prev, lib, self, frame, nops>>

NoLib  == [id |-> <<>>, name |-> "", version |-> 0, cbCollections |-> {}]
NoCall == [kind |-> "none", id |-> <<>>, name |-> "", version |-> 0,
           key |-> "", content |-> 0, keys |-> <<>>,
           result |-> "none", err |-> "none", logged |-> FALSE,
           sawExists |-> FALSE, issued |-> {}, returned |-> <<>>]
NoFrame == [ci |-> 1, elapsed |-> 0, collection |-> FALSE, keys |-> <<>>,
            cluster |-> 0]

\* new Library(store, prefix): name = "", version = 0, cbCollections = new Map
NewLibrary(id) ==
    [id |-> id, name |-> "", version |-> 0, cbCollections |-> {}]

\* Store constructor: defaults of the options
StoreConstructor(throwSyncErrors, userLibraryName) ==
    [throwSyncErrors |-> throwSyncErrors,
     userLibraryName |-> IF userLibraryName = "" THEN DefaultUserLibraryName
                         ELSE userLibraryName]

\* this.timeout = options.timeout || 5000
StoreTimeout(optTimeout) ==
    IF optTimeout = 0 THEN DefaultTimeout ELSE optTimeout

\* --------------------------------------------------------- initial states
Document(sc, c, k, num, str) ==
    [scope |-> sc, coll |-> c, key |-> k, num |-> num, str |-> str]

\* What earlier sessions left in the bucket for a library: nothing
\* ("empty"); the library provisioned and filled but never saved
\* ("unsynced"); or the same after save("", 1) under the default options
\* ("synced").
Seeds == {"empty", "unsynced", "synced"}

SeedDocs(id, seed) ==
    LET sc == createScopeNameFromPrefix(id) IN
    IF seed = "empty" THEN {}
    ELSE {Document(sc, "items", "A", 1, ""),
          Document(sc, "collections", "A", 1, "")}
         \cup (IF seed = "synced"
               THEN {Document(sc, "meta", "version", 1, ""),
                     Document(sc, "meta", "name", 0, DefaultUserLibraryName)}
               ELSE {})

\* seeds: library identifier -> seed
InitBucket(seeds) ==
    LET provisioned == {createScopeNameFromPrefix(id) :
                            id \in {i \in LibIds : seeds[i] # "empty"}}
    IN  /\ scopes = provisioned
        /\ colls = [k \in ScopeNames \X CollectionNameSet |->
                      IF k[1] \in provisioned THEN "live" ELSE "none"]
        /\ indexes = [k \in ScopeNames \X CollectionNameSet |->
                      IF k[1] \in provisioned THEN "online" ELSE "none"]
        /\ docs = UNION {SeedDocs(id, seeds[id]) : id \in LibIds}
        /\ faults = 0

\* new Store(url, username, password, options), the same options in every
\* session
InitStores(timeouts) ==
    /\ \E throwSyncErrors \in BOOLEAN,
          userLibraryName \in {"", CustomUserLibraryName} :
            options = [s \in Stores |->
                          StoreConstructor(throwSyncErrors, userLibraryName)]
    /\ \E o \in timeouts : timeout = [s \in Stores |-> StoreTimeout(o)]
    /\ libraries = [s \in Stores |-> <<>>]
    /\ cluster = [s \in Stores |-> 0]
    /\ connects = [s \in Stores |-> 0]

InitTasks ==
    /\ call = [t \in Tasks |-> NoCall]
    /\ prev = [t \in Tasks |-> [call |-> NoCall, lib |-> NoLib]]
    /\ lib = [t \in Tasks |-> NoLib]
    /\ self = [t \in Tasks |-> NoLib]
    /\ frame = [t \in Tasks |-> NoFrame]

\* One session: a single Store driven by a single sequential caller that
\* synchronizes the user library.
Init ==
    /\ \E seed \in Seeds :
          InitBucket([id \in LibIds |-> IF id = UserLib THEN seed ELSE "empty"])
    /\ InitStores(TimeoutOptions)
    /\ InitTasks
    /\ nops = [t \in Tasks |-> 0]
    /\ storeOf = [t \in Tasks |-> 1]
    /\ pc = [t \in Tasks |-> IF t = 1 THEN "idle" ELSE "off"]

\* ----------------------------------------------------------------- helpers
Range(seq) == {seq[i] : i \in 1..Len(seq)}

Filter(seq, id) == SelectSeq(seq, LAMBDA prefix : prefix # id)

DocsAt(sc, c, k) == {d \in docs : d.scope = sc /\ d.coll = c /\ d.key = k}

DocsOfScope(sc) == {d \in docs : d.scope = sc}

\* a task starts a call: the call in progress becomes the previous one
BeginCall(t, c) ==
    /\ call' = [call EXCEPT ![t] = c]
    /\ prev' = [prev EXCEPT ![t] = [call |-> call[t], lib |-> lib[t]]]
    /\ nops' = [nops EXCEPT ![t] = @ + 1]

\* (variant: every rejection goes through the throw / log policy)
ThrowByPolicy(t, res, err) ==
    /\ pc' = [pc EXCEPT ![t] = "idle"]
    /\ call' = [call EXCEPT
                  ![t].result = IF options[storeOf[t]].throwSyncErrors
                                THEN res ELSE "ok",
                  ![t].logged = ~options[storeOf[t]].throwSyncErrors,
                  ![t].err = err]

\* the call rejects (throws to the caller)
Throw(t, res, err) ==
    /\ pc' = [pc EXCEPT ![t] = "idle"]
    /\ call' = [call EXCEPT ![t].result = res, ![t].err = err]

\* the bucket answers one more driver call with a failure
Inject == faults < MaxFaults /\ faults' = faults + 1

\* ------------------------------------------------------------ Store.get
\* (variant: push without the includes test)
RegisterAlways(libs, id) == Append(libs, id)

\* (variant: get does not register the identifier)
RegisterNothing(libs, id) == libs

\* if (!this.libraries.includes(prefix)) this.libraries.push(prefix)
RegisterLibrary(libs, id) ==
    IF id \in Range(libs) THEN libs ELSE Append(libs, id)

\* const library = new Library(...); register; library.init() up to its
\* first await (getCluster connects only when this.cluster is unset)
StoreGet(t, id) ==
    /\ pc[t] = "idle"
    /\ nops[t] < MaxOps
    /\ libraries' = [libraries EXCEPT ![storeOf[t]] = RegisterLibrary(@, id)]
    /\ self' = [self EXCEPT ![t] = NewLibrary(id)]
    /\ BeginCall(t, [NoCall EXCEPT !.kind = "get", !.id = id])
    /\ frame' = [frame EXCEPT ![t] = [NoFrame EXCEPT !.cluster = cluster[storeOf[t]]]]
    /\ pc' = [pc EXCEPT ![t] = IF cluster[storeOf[t]] = 0 THEN "connect"
                                ELSE "createScope"]
    /\ UNCHANGED <<dbVars, faults, cfgVars, cluster, connects, lib>>

\* this.cluster = await couchbase.connect(...); return this.cluster
Connect(t) ==
    /\ pc[t] = "connect"
    /\ \/ /\ connects' = [connects EXCEPT ![storeOf[t]] = @ + 1]
          /\ cluster' = [cluster EXCEPT ![storeOf[t]] = connects[storeOf[t]] + 1]
          /\ frame' = [frame EXCEPT ![t].cluster = connects[storeOf[t]] + 1]
          /\ pc' = [pc EXCEPT ![t] = IF call[t].kind = "get" THEN "createScope"
                                      ELSE "dropScope"]
          /\ UNCHANGED <<call, faults>>
       \/ /\ Inject
          /\ Throw(t, "error", "connection")
          /\ UNCHANGED <<connects, cluster, frame>>
    /\ UNCHANGED <<dbVars, cfgVars, libraries, prev, lib, self, nops>>

\* ------------------------------------------------- error classification
\* (variant: the "exists" answer of a scope or collection creation is rethrown)
ExistsRethrown(e) == FALSE

\* (variant: every failure of a creation is taken for "exists")
AnyErrorMasked(e) == TRUE

\* e.toString().includes("exists")
IsExistsError(e) == e = "exists"

\* (variant: the "already exists" answer of the index creation is rethrown)
IndexExistsRethrown(e) == FALSE

\* err.first_error_message.includes("already exists")
IsIndexExistsError(e) == e = "exists"

\* (variant: the "document not found" answer is treated as any failure)
NotFoundRethrown(e) == FALSE

\* e.message.includes("document not found")
IsNotFoundError(e) == e = "notfound"

\* isTimedOut = new Date().getTime() > now + timeout
IsTimedOut(elapsed, limit) == elapsed > limit

\* what the bucket may answer: the regular answer, or an injected failure
Answers(regular) ==
    {regular} \cup (IF faults < MaxFaults THEN {"fault"} ELSE {})

CountFault(e) == faults' = IF e = "fault" THEN faults + 1 ELSE faults

\* ----------------------------------------------------- createCbCollection
InitScope(t) == createScopeNameFromPrefix(self[t].id)
InitColl(t)  == collectionNames[frame[t].ci]

\* await bucket.collections().createScope(scopeName)
CreateScope(t) ==
    /\ pc[t] = "createScope"
    /\ \E e \in Answers(IF InitScope(t) \in scopes THEN "exists" ELSE "ok") :
        /\ CountFault(e)
        /\ scopes' = IF e = "ok" THEN scopes \cup {InitScope(t)} ELSE scopes
        /\ IF e = "ok" \/ IsExistsError(e)
           THEN /\ pc' = [pc EXCEPT ![t] = "createCollection"]
                /\ call' = [call EXCEPT ![t].sawExists = @ \/ (e = "exists")]
           ELSE Throw(t, "error", e)
    /\ UNCHANGED <<colls, indexes, docs, cfgVars, storeVars, prev, lib, self,
                   frame, nops>>

\* await bucket.collections().createCollection(collSpec); now = getTime()
CreateCollection(t) ==
    /\ pc[t] = "createCollection"
    /\ \E e \in Answers(IF InitScope(t) \notin scopes THEN "missing"
                        ELSE IF colls[InitScope(t), InitColl(t)] # "none"
                             THEN "exists" ELSE "ok") :
        /\ CountFault(e)
        /\ colls' = IF e = "ok"
                    THEN [colls EXCEPT ![InitScope(t), InitColl(t)] = "creating"]
                    ELSE colls
        /\ IF e = "ok" \/ IsExistsError(e)
           THEN /\ pc' = [pc EXCEPT ![t] = "pollCollection"]
                /\ call' = [call EXCEPT ![t].sawExists = @ \/ (e = "exists")]
                /\ frame' = [frame EXCEPT ![t].elapsed = 0,
                                          ![t].collection = FALSE]
           ELSE Throw(t, "error", e) /\ UNCHANGED frame
    /\ UNCHANGED <<scopes, indexes, docs, cfgVars, storeVars, prev, lib, self,
                   nops>>

\* One iteration of the loop `while (!collection && !isTimedOut)`:
\* the attempt to get the handle, the 100 ms sleep, the deadline check,
\* then the exit of the loop and the `if (isTimedOut) throw`.
PollCollection(t) ==
    /\ pc[t] = "pollCollection"
    /\ LET collection == colls[InitScope(t), InitColl(t)] = "live"
           elapsed    == frame[t].elapsed + SleepInterval
           isTimedOut == IsTimedOut(elapsed, timeout[storeOf[t]])
       IN  IF ~collection /\ ~isTimedOut
           THEN /\ frame' = [frame EXCEPT ![t].elapsed = elapsed]
                /\ UNCHANGED <<pc, call>>
           ELSE IF isTimedOut
           THEN /\ Throw(t, "timeout", "timeout creating collection")
                /\ frame' = [frame EXCEPT ![t].elapsed = elapsed,
                                          ![t].collection = collection]
           ELSE /\ pc' = [pc EXCEPT ![t] = "createIndex"]
                /\ frame' = [frame EXCEPT ![t].elapsed = 0,
                                          ![t].collection = TRUE]
                /\ UNCHANGED call
    /\ UNCHANGED <<dbVars, faults, cfgVars, storeVars, prev, lib, self, nops>>

\* ----------------------------------------------------- createPrimaryIndex
\* (variant: the handle is not kept)
SetNoHandle(handles, c) == handles

\* this.cbCollections.set(collectionName, cbColl)
SetHandle(handles, c) == handles \cup {c}

\* this.cbCollections.set(collectionName, cbColl) and the next turn of the
\* loop over collectionNames, or the metadata load after the last turn
CollectionDone(t) ==
    /\ self' = [self EXCEPT ![t].cbCollections = SetHandle(@, InitColl(t))]
    /\ IF frame[t].ci < Len(collectionNames)
       THEN /\ frame' = [frame EXCEPT ![t].ci = @ + 1, ![t].elapsed = 0,
                                      ![t].collection = FALSE]
            /\ pc' = [pc EXCEPT ![t] = "createScope"]
       ELSE /\ frame' = [frame EXCEPT ![t].elapsed = 0]
            /\ pc' = [pc EXCEPT ![t] = "readName"]

\* await cluster.query("create primary index on ...")
CreateIndex(t) ==
    /\ pc[t] = "createIndex"
    /\ \E e \in Answers(IF colls[InitScope(t), InitColl(t)] # "live" THEN "missing"
                        ELSE IF indexes[InitScope(t), InitColl(t)] # "none"
                             THEN "exists" ELSE "ok") :
        /\ CountFault(e)
        /\ indexes' = IF e = "ok"
                      THEN [indexes EXCEPT ![InitScope(t), InitColl(t)] = "building"]
                      ELSE indexes
        /\ IF e = "ok"
           THEN /\ pc' = [pc EXCEPT ![t] = "pollIndex"]
                /\ frame' = [frame EXCEPT ![t].elapsed = 0]
                /\ UNCHANGED <<call, self>>
           ELSE IF IsIndexExistsError(e)
           THEN /\ CollectionDone(t)
                /\ call' = [call EXCEPT ![t].sawExists = TRUE]
           ELSE Throw(t, "error", e) /\ UNCHANGED <<frame, self>>
    /\ UNCHANGED <<scopes, colls, docs, cfgVars, storeVars, prev, lib, nops>>

\* One iteration of `while (!isTimedOut)`: the state query, the break when
\* the index is online, else the sleep and the deadline check.
PollIndex(t) ==
    /\ pc[t] = "pollIndex"
    /\ \E e \in Answers(indexes[InitScope(t), InitColl(t)]) :
        /\ CountFault(e)
        /\ IF e = "fault"
           THEN Throw(t, "error", e) /\ UNCHANGED <<frame, self>>
           ELSE IF e = "online"
           THEN CollectionDone(t) /\ UNCHANGED call
           ELSE IF IsTimedOut(frame[t].elapsed + SleepInterval, timeout[storeOf[t]])
           THEN /\ Throw(t, "timeout", "timeout creating primary index")
                /\ frame' = [frame EXCEPT ![t].elapsed = @ + SleepInterval]
                /\ UNCHANGED self
           ELSE /\ frame' = [frame EXCEPT ![t].elapsed = @ + SleepInterval]
                /\ UNCHANGED <<pc, call, self>>
    /\ UNCHANGED <<dbVars, cfgVars, storeVars, prev, lib, nops>>

\* ------------------------------------------------ Library.init, metadata
\* init returns this; Store.get returns it to the caller
ReturnLibrary(t, l, e) ==
    /\ lib' = [lib EXCEPT ![t] = l]
    /\ self' = [self EXCEPT ![t] = l]
    /\ pc' = [pc EXCEPT ![t] = "idle"]
    /\ call' = [call EXCEPT ![t].result = "ok", ![t].logged = (e # "none"),
                            ![t].err = e]

MetaAnswer(t, k) ==
    IF colls[InitScope(t), "meta"] # "live" THEN "missing"
    ELSE IF DocsAt(InitScope(t), "meta", k) = {} THEN "notfound" ELSE "ok"

\* (variant: the catch block swallows every failure)
InitCatchSwallowsAll(t, e) == ReturnLibrary(t, self[t], "none")

\* the catch block of init
InitCatch(t, e) ==
    IF IsNotFoundError(e) THEN ReturnLibrary(t, self[t], "none")
    ELSE IF options[storeOf[t]].throwSyncErrors
    THEN Throw(t, "error", e) /\ UNCHANGED <<lib, self>>
    ELSE ReturnLibrary(t, self[t], e)

\* this.name = (await metaCollection.get("name")).content
ReadName(t) ==
    /\ pc[t] = "readName"
    /\ \E e \in Answers(MetaAnswer(t, "name")) :
        /\ CountFault(e)
        /\ IF e = "ok"
           THEN \E d \in DocsAt(InitScope(t), "meta", "name") :
                  /\ self' = [self EXCEPT ![t].name = d.str]
                  /\ pc' = [pc EXCEPT ![t] = "readVersion"]
                  /\ UNCHANGED <<call, lib>>
           ELSE InitCatch(t, e)
    /\ UNCHANGED <<dbVars, cfgVars, storeVars, prev, frame, nops>>

\* this.version = (await metaCollection.get("version")).content
ReadVersion(t) ==
    /\ pc[t] = "readVersion"
    /\ \E e \in Answers(MetaAnswer(t, "version")) :
        /\ CountFault(e)
        /\ IF e = "ok"
           THEN \E d \in DocsAt(InitScope(t), "meta", "version") :
                  ReturnLibrary(t, [self[t] EXCEPT !.version = d.num], "none")
           ELSE InitCatch(t, e)
    /\ UNCHANGED <<dbVars, cfgVars, storeVars, prev, frame, nops>>

\* ------------------------------------------------------ the bucket itself
\* a created collection becomes usable
Materialize(sc, c) ==
    /\ colls[sc, c] = "creating"
    /\ colls' = [colls EXCEPT ![sc, c] = "live"]
    /\ UNCHANGED <<scopes, indexes, docs, faults, cfgVars, storeVars, taskVars>>

\* a primary index finishes building
IndexOnline(sc, c) ==
    /\ indexes[sc, c] = "building"
    /\ indexes' = [indexes EXCEPT ![sc, c] = "online"]
    /\ UNCHANGED <<scopes, colls, docs, faults, cfgVars, storeVars, taskVars>>

\* --------------------------------------------------------- Store.remove
\* (variant: the registry is not updated)
UnregisterNothing(libs, id) == libs

\* this.libraries.filter(prefix => prefix !== user_or_group_prefix)
UnregisterLibrary(libs, id) == Filter(libs, id)

\* remove up to its first await (getBucket -> getCluster)
StoreRemove(t, id) ==
    /\ pc[t] = "idle"
    /\ nops[t] < MaxOps
    /\ BeginCall(t, [NoCall EXCEPT !.kind = "remove_library", !.id = id])
    /\ frame' = [frame EXCEPT ![t] = [NoFrame EXCEPT !.cluster = cluster[storeOf[t]]]]
    /\ pc' = [pc EXCEPT ![t] = IF cluster[storeOf[t]] = 0 THEN "connect"
                                ELSE "dropScope"]
    /\ UNCHANGED <<dbVars, faults, cfgVars, storeVars, lib, self>>

\* (variant: the drop is never sent to the bucket)
DropNothing(sc) == UNCHANGED dbVars

\* the effect of dropScope on the bucket: the scope goes with everything
\* in it
DropFromBucket(sc) ==
    /\ scopes' = scopes \ {sc}
    /\ colls' = [k \in DOMAIN colls |-> IF k[1] = sc THEN "none" ELSE colls[k]]
    /\ indexes' = [k \in DOMAIN indexes |-> IF k[1] = sc THEN "none" ELSE indexes[k]]
    /\ docs' = docs \ DocsOfScope(sc)

\* try { await bucket.collections().dropScope(scopeName) } catch ...;
\* this.libraries = this.libraries.filter(...)
DropScope(t) ==
    /\ pc[t] = "dropScope"
    /\ LET sc == createScopeNameFromPrefix(call[t].id) IN
       \E e \in Answers(IF sc \in scopes THEN "ok" ELSE "missing") :
        /\ CountFault(e)
        /\ IF e = "ok" THEN DropFromBucket(sc) ELSE UNCHANGED dbVars
        /\ IF e # "ok" /\ options[storeOf[t]].throwSyncErrors
           THEN Throw(t, "error", e) /\ UNCHANGED libraries
           ELSE /\ libraries' = [libraries EXCEPT ![storeOf[t]] =
                                    UnregisterLibrary(@, call[t].id)]
                /\ pc' = [pc EXCEPT ![t] = "idle"]
                /\ call' = [call EXCEPT ![t].result = "ok",
                                        ![t].logged = (e # "ok"),
                                        ![t].err = IF e = "ok" THEN "none" ELSE e]
    /\ UNCHANGED <<cfgVars, cluster, connects, prev, lib, self, frame, nops>>

\* ------------------------------------------------- Library mutations
LibScope(t) == createScopeNameFromPrefix(lib[t].id)

\* (variant: insert without replacing)
InsertOnly(D, d) == D \cup {d}

\* collection.upsert(key, value): insert, or replace the document of the key
Upsert(D, d) ==
    {x \in D : ~(x.scope = d.scope /\ x.coll = d.coll /\ x.key = d.key)} \cup {d}

\* collection.remove(key)
Delete(D, sc, c, k) ==
    {x \in D : ~(x.scope = sc /\ x.coll = c /\ x.key = k)}

\* what the bucket answers to a write through the handle of collection c
WriteAnswer(t, c) ==
    IF c \notin lib[t].cbCollections THEN "nohandle"
    ELSE IF colls[LibScope(t), c] # "live" THEN "missing" ELSE "ok"

\* catch (e) { if (throwSyncErrors) throw e; console.error(e.message) }
\* : the outcome of a call whose single driver call was answered with e
PolicyResult(t, e) ==
    IF e = "ok" \/ ~options[storeOf[t]].throwSyncErrors THEN "ok" ELSE "error"

\* the body shared by add and add_collection: one upsert in that try/catch
UpsertObject(t, kind, c, k, content) ==
    /\ pc[t] = "idle"
    /\ lib[t] # NoLib
    /\ nops[t] < MaxOps
    /\ \E e \in Answers(WriteAnswer(t, c)) :
        /\ CountFault(e)
        /\ docs' = IF e = "ok"
                   THEN Upsert(docs, Document(LibScope(t), c, k, content, ""))
                   ELSE docs
        /\ BeginCall(t, [NoCall EXCEPT
                            !.kind = kind, !.id = lib[t].id, !.key = k,
                            !.content = content,
                            !.result = PolicyResult(t, e),
                            !.err = IF e = "ok" THEN "none" ELSE e,
                            !.logged = (e # "ok" /\ PolicyResult(t, e) = "ok")])
    /\ frame' = [frame EXCEPT ![t] = NoFrame]
    /\ UNCHANGED <<scopes, colls, indexes, cfgVars, storeVars, pc, lib, self>>

\* Library.add(item)
Add(t, k, content) == UpsertObject(t, "add", "items", k, content)

\* Library.add_collection(collection)
AddCollection(t, k, content) ==
    UpsertObject(t, "add_collection", "collections", k, content)

\* Library.remove(keys) / Library.remove_collections(keys) up to the first
\* await of the loop
BeginRemove(t, kind, keys) ==
    /\ pc[t] = "idle"
    /\ lib[t] # NoLib
    /\ nops[t] < MaxOps
    /\ BeginCall(t, [NoCall EXCEPT !.kind = kind, !.id = lib[t].id,
                                   !.keys = keys])
    /\ frame' = [frame EXCEPT ![t] = [NoFrame EXCEPT !.keys = keys]]
    /\ pc' = [pc EXCEPT ![t] = "removeKey"]
    /\ UNCHANGED <<dbVars, faults, cfgVars, storeVars, lib, self>>

Remove(t, keys) == BeginRemove(t, "remove", keys)

RemoveCollections(t, keys) == BeginRemove(t, "remove_collections", keys)

RemoveTarget(t) == IF call[t].kind = "remove" THEN "items" ELSE "collections"

DeleteAnswer(t, c, k) ==
    IF WriteAnswer(t, c) # "ok" THEN WriteAnswer(t, c)
    ELSE IF DocsAt(LibScope(t), c, k) = {} THEN "notfound" ELSE "ok"

\* (variant: the loop ends after its first turn)
NoKeysLeft(keys) == <<>>

\* for (const key of keys): the keys of the turns still to come
KeysLeft(keys) == Tail(keys)

\* one turn of `for (const key of keys)`: the delete and its catch block
RemoveKey(t) ==
    /\ pc[t] = "removeKey"
    /\ LET k == Head(frame[t].keys)
           c == RemoveTarget(t)
       IN \E e \in Answers(DeleteAnswer(t, c, k)) :
            /\ CountFault(e)
            /\ docs' = IF e = "ok" THEN Delete(docs, LibScope(t), c, k) ELSE docs
            /\ IF e # "ok" /\ ~IsNotFoundError(e)
                  /\ options[storeOf[t]].throwSyncErrors
               THEN /\ pc' = [pc EXCEPT ![t] = "idle"]
                    /\ call' = [call EXCEPT ![t].result = "error",
                                            ![t].err = e,
                                            ![t].issued = @ \cup {k}]
                    /\ UNCHANGED frame
               ELSE /\ frame' = [frame EXCEPT ![t].keys = KeysLeft(@)]
                    /\ pc' = [pc EXCEPT ![t] =
                                IF KeysLeft(frame[t].keys) = <<>> THEN "idle" ELSE @]
                    /\ call' = [call EXCEPT
                          ![t].issued = @ \cup {k},
                          ![t].logged = @ \/ (e # "ok" /\ ~IsNotFoundError(e)),
                          ![t].err = IF e # "ok" /\ ~IsNotFoundError(e)
                                     THEN e ELSE @,
                          ![t].result = IF KeysLeft(frame[t].keys) = <<>>
                                        THEN "ok" ELSE @]
    /\ UNCHANGED <<scopes, colls, indexes, cfgVars, storeVars, prev, lib, self,
                   nops>>

\* ---------------------------------------------------------- Library.save
\* (variant: the display name replaces every name)
SavedNameAlways(name, opts) == opts.userLibraryName

\* (variant: no substitution of the display name)
SavedNameNever(name, opts) == name

\* if (!name) name = this.store.options.userLibraryName
SavedName(name, opts) == IF name = "" THEN opts.userLibraryName ELSE name

\* save up to its first await
Save(t, name, version) ==
    /\ pc[t] = "idle"
    /\ lib[t] # NoLib
    /\ nops[t] < MaxOps
    /\ BeginCall(t, [NoCall EXCEPT !.kind = "save", !.id = lib[t].id,
                                   !.name = name, !.version = version])
    /\ frame' = [frame EXCEPT ![t] = NoFrame]
    /\ pc' = [pc EXCEPT ![t] = "upsertVersion"]
    /\ UNCHANGED <<dbVars, faults, cfgVars, storeVars, lib, self>>

\* await metaCollection.upsert("version", version)
UpsertVersion(t) ==
    /\ pc[t] = "upsertVersion"
    /\ \E e \in Answers(WriteAnswer(t, "meta")) :
        /\ CountFault(e)
        /\ IF e = "ok"
           THEN /\ docs' = Upsert(docs, Document(LibScope(t), "meta", "version",
                                                 call[t].version, ""))
                /\ pc' = [pc EXCEPT ![t] = "upsertName"]
                /\ UNCHANGED call
           ELSE Throw(t, "error", e) /\ UNCHANGED docs
    /\ UNCHANGED <<scopes, colls, indexes, cfgVars, storeVars, prev, lib, self,
                   frame, nops>>

\* (variant: save stores its arguments in the Library)
SaveAssignsFields(l, name, version) ==
    [l EXCEPT !.name = name, !.version = version]

\* the Library after save(name, version): save assigns neither this.name
\* nor this.version
SaveKeepsFields(l, name, version) == l

\* await metaCollection.upsert("name", name)
UpsertName(t) ==
    /\ pc[t] = "upsertName"
    /\ \E e \in Answers(WriteAnswer(t, "meta")) :
        /\ CountFault(e)
        /\ IF e = "ok"
           THEN /\ docs' = Upsert(docs, Document(LibScope(t), "meta", "name", 0,
                                    SavedName(call[t].name, options[storeOf[t]])))
                /\ pc' = [pc EXCEPT ![t] = "idle"]
                /\ call' = [call EXCEPT ![t].result = "ok"]
           ELSE Throw(t, "error", e) /\ UNCHANGED docs
    /\ lib' = [lib EXCEPT ![t] =
                  SaveKeepsFields(@, call[t].name, call[t].version)]
    /\ UNCHANGED <<scopes, colls, indexes, cfgVars, storeVars, prev, self,
                   frame, nops>>

\* ------------------------------------------------------- specifications
\* The life cycle of one library: Store.get, Store.remove and Library.save
\* issued one after the other by one session, against a bucket that
\* materializes collections and indexes at its own pace.
Next ==
    \/ \E t \in Tasks : StoreGet(t, UserLib)
    \/ \E t \in Tasks : Connect(t)
    \/ \E t \in Tasks : CreateScope(t)
    \/ \E t \in Tasks : CreateCollection(t)
    \/ \E t \in Tasks : PollCollection(t)
    \/ \E t \in Tasks : CreateIndex(t)
    \/ \E t \in Tasks : PollIndex(t)
    \/ \E t \in Tasks : ReadName(t)
    \/ \E t \in Tasks : ReadVersion(t)
    \/ \E t \in Tasks : StoreRemove(t, UserLib)
    \/ \E t \in Tasks : DropScope(t)
    \/ \E t \in Tasks, name \in SaveNames, version \in Versions : Save(t, name, version)
    \/ \E t \in Tasks : UpsertVersion(t)
    \/ \E t \in Tasks : UpsertName(t)
    \/ \E sc \in ScopeNames, c \in CollectionNameSet : Materialize(sc, c)
    \/ \E sc \in ScopeNames, c \in CollectionNameSet : IndexOnline(sc, c)

Spec == Init /\ [][Next]_vars

\* The registry of libraries: one session that gets and removes the two
\* libraries of an account whose libraries were synchronized before.
RegistryInit ==
    /\ InitBucket([id \in LibIds |-> "synced"])
    /\ InitStores({LongTimeout})
    /\ InitTasks
    /\ nops = [t \in Tasks |-> 0]
    /\ storeOf = [t \in Tasks |-> 1]
    /\ pc = [t \in Tasks |-> IF t = 1 THEN "idle" ELSE "off"]

RegistryNext ==
    \/ \E t \in Tasks, id \in LibIds : StoreGet(t, id)
    \/ \E t \in Tasks : Connect(t)
    \/ \E t \in Tasks : CreateScope(t)
    \/ \E t \in Tasks : CreateCollection(t)
    \/ \E t \in Tasks : PollCollection(t)
    \/ \E t \in Tasks : CreateIndex(t)
    \/ \E t \in Tasks : PollIndex(t)
    \/ \E t \in Tasks : ReadName(t)
    \/ \E t \in Tasks : ReadVersion(t)
    \/ \E t \in Tasks, id \in LibIds : StoreRemove(t, id)
    \/ \E t \in Tasks : DropScope(t)
    \/ \E sc \in ScopeNames, c \in CollectionNameSet : Materialize(sc, c)
    \/ \E sc \in ScopeNames, c \in CollectionNameSet : IndexOnline(sc, c)

RegistrySpec == RegistryInit /\ [][RegistryNext]_vars

\* Two callers that get the user library at the same time, from one Store
\* or from the Stores of two sessions, against a bucket that is empty or
\* holds the library synchronized before.
ConcInit ==
    /\ \E seed \in {"empty", "synced"} :
          InitBucket([id \in LibIds |-> IF id = UserLib THEN seed ELSE "empty"])
    /\ InitStores({LongTimeout})
    /\ InitTasks
    /\ nops = [t \in Tasks |-> MaxOps - 1]
    /\ \E s \in Stores : storeOf = [t \in Tasks |-> IF t = 1 THEN 1 ELSE s]
    /\ pc = [t \in Tasks |-> "idle"]

ConcNext ==
    \/ \E t \in Tasks : StoreGet(t, UserLib)
    \/ \E t \in Tasks : Connect(t)
    \/ \E t \in Tasks : CreateScope(t)
    \/ \E t \in Tasks : CreateCollection(t)
    \/ \E t \in Tasks : PollCollection(t)
    \/ \E t \in Tasks : CreateIndex(t)
    \/ \E t \in Tasks : PollIndex(t)
    \/ \E t \in Tasks : ReadName(t)
    \/ \E t \in Tasks : ReadVersion(t)
    \/ \E sc \in ScopeNames, c \in CollectionNameSet : Materialize(sc, c)
    \/ \E sc \in ScopeNames, c \in CollectionNameSet : IndexOnline(sc, c)

ConcSpec == ConcInit /\ [][ConcNext]_vars

\* The mutation surface: a session whose Store.get just returned the
\* Library of the freshly provisioned user library, and which then issues
\* add / remove / save calls one after the other.
ReadyLibrary ==
    [id |-> UserLib, name |-> "", version |-> 0,
     cbCollections |-> CollectionNameSet]

CrudInit ==
    /\ InitBucket([id \in LibIds |-> IF id = UserLib THEN "unsynced" ELSE "empty"])
    /\ \E throwSyncErrors \in BOOLEAN,
          userLibraryName \in {"", CustomUserLibraryName} :
            options = [s \in Stores |->
                          StoreConstructor(throwSyncErrors, userLibraryName)]
    /\ timeout = [s \in Stores |-> StoreTimeout(0)]
    /\ libraries = [s \in Stores |-> IF s = 1 THEN <<UserLib>> ELSE <<>>]
    /\ cluster = [s \in Stores |-> IF s = 1 THEN 1 ELSE 0]
    /\ connects = [s \in Stores |-> IF s = 1 THEN 1 ELSE 0]
    /\ call = [t \in Tasks |->
                 IF t = 1 THEN [NoCall EXCEPT !.kind = "get", !.id = UserLib,
                                              !.result = "ok", !.sawExists = TRUE]
                 ELSE NoCall]
    /\ prev = [t \in Tasks |-> [call |-> NoCall, lib |-> NoLib]]
    /\ lib = [t \in Tasks |-> IF t = 1 THEN ReadyLibrary ELSE NoLib]
    /\ self = [t \in Tasks |-> IF t = 1 THEN ReadyLibrary ELSE NoLib]
    /\ frame = [t \in Tasks |->
                 IF t = 1 THEN [NoFrame EXCEPT !.cluster = 1, !.ci = 3,
                                               !.collection = TRUE]
                 ELSE NoFrame]
    /\ nops = [t \in Tasks |-> 1]
    /\ storeOf = [t \in Tasks |-> 1]
    /\ pc = [t \in Tasks |-> IF t = 1 THEN "idle" ELSE "off"]

CrudNext ==
    \/ \E t \in Tasks, k \in Keys, content \in Contents : Add(t, k, content)
    \/ \E t \in Tasks, k \in Keys, content \in Contents : AddCollection(t, k, content)
    \/ \E t \in Tasks, keys \in KeyBatches : Remove(t, keys)
    \/ \E t \in Tasks, keys \in KeyBatches : RemoveCollections(t, keys)
    \/ \E t \in Tasks : RemoveKey(t)
    \/ \E t \in Tasks, name \in SaveNames, version \in Versions : Save(t, name, version)
    \/ \E t \in Tasks : UpsertVersion(t)
    \/ \E t \in Tasks : UpsertName(t)
    \/ \E t \in Tasks : StoreRemove(t, UserLib)
    \/ \E t \in Tasks : DropScope(t)

CrudSpec == CrudInit /\ [][CrudNext]_vars

\* ------------------------------------------- the functions without I/O
\* new Library(store, id).getType(): returns without any await
GetType(t, id) ==
    /\ pc[t] = "idle"
    /\ nops[t] < MaxOps
    /\ self' = [self EXCEPT ![t] = NewLibrary(id)]
    /\ BeginCall(t, [NoCall EXCEPT !.kind = "getType", !.id = id,
                                   !.result = "ok",
                                   !.returned = getType(id)])
    /\ UNCHANGED <<dbVars, faults, cfgVars, storeVars, pc, lib, frame>>

\* store.createScopeNameFromPrefix(id): returns without any await
CreateScopeName(t, id) ==
    /\ pc[t] = "idle"
    /\ nops[t] < MaxOps
    /\ BeginCall(t, [NoCall EXCEPT !.kind = "createScopeNameFromPrefix",
                                   !.id = id, !.result = "ok",
                                   !.returned = createScopeNameFromPrefix(id)])
    /\ UNCHANGED <<dbVars, faults, cfgVars, storeVars, pc, lib, self, frame>>

\* Two callers that each ask once for the type or for the scope name of a
\* library identifier.
NamingInit ==
    /\ InitBucket([id \in LibIds |-> "empty"])
    /\ InitStores({LongTimeout})
    /\ InitTasks
    /\ nops = [t \in Tasks |-> MaxOps - 1]
    /\ storeOf = [t \in Tasks |-> 1]
    /\ pc = [t \in Tasks |-> "idle"]

NamingNext ==
    \/ \E t \in Tasks, id \in Identifiers : GetType(t, id)
    \/ \E t \in Tasks, id \in Identifiers : CreateScopeName(t, id)

NamingSpec == NamingInit /\ [][NamingNext]_vars

\* ------------------------------------------------------------ properties
Completed(t, kind) == pc[t] = "idle" /\ call[t].kind = kind

\* the bucket failed a driver call of the call, or the connection failed
StoreFailed(c) == c.err \in {"fault", "connection"}

\* C1: when a session gets a library a second time right after a first
\* successful get of the same identifier, and the bucket fails no call of
\* the second get, the second get raises nothing and returns a Library with
\* the same name, version and partition handles as the first.
C1_GetIsIdempotent ==
    \A t \in Tasks :
        ( /\ Completed(t, "get")
          /\ ~StoreFailed(call[t])
          /\ prev[t].call.kind = "get"
          /\ prev[t].call.id = call[t].id
          /\ prev[t].call.result = "ok"
          /\ ~prev[t].call.logged )
        => /\ call[t].result = "ok"
           /\ ~call[t].logged
           /\ lib[t].name = prev[t].lib.name
           /\ lib[t].version = prev[t].lib.version
           /\ lib[t].cbCollections = prev[t].lib.cbCollections
           /\ lib[t].cbCollections = CollectionNameSet

C1_Witness ==
    /\ Completed(1, "get") /\ call[1].result = "ok" /\ call[1].sawExists
    /\ prev[1].call.kind = "get" /\ prev[1].call.result = "ok"
    /\ prev[1].lib.cbCollections = CollectionNameSet

\* C2: under every interleaving of two gets of the same library, no get
\* fails because of what the other one created: a get ends successfully
\* unless a deadline passed or the bucket failed one of its calls; it never
\* ends with an "already exists" error.
C2_ConcurrentProvisioning ==
    \A t \in Tasks :
        Completed(t, "get")
        => \/ call[t].result = "ok" /\ lib[t].cbCollections = CollectionNameSet
           \/ call[t].result = "timeout"
           \/ call[t].result = "error" /\ StoreFailed(call[t])

C2_Witness ==
    /\ storeOf[1] # storeOf[2]
    /\ \A d \in docs : d.coll # "meta"
    /\ \A t \in Tasks :
         Completed(t, "get") /\ call[t].result = "ok" /\ call[t].sawExists

\* C3 (as claimed): a get that ends while a primary index of the library
\* is not online, and none of whose calls the bucket failed, ends with the
\* timeout error.
C3_TimeoutWhenNeverOnline ==
    \A t \in Tasks :
        ( /\ Completed(t, "get")
          /\ ~StoreFailed(call[t])
          /\ \E c \in CollectionNameSet :
                indexes[createScopeNameFromPrefix(call[t].id), c] # "online" )
        => call[t].result = "timeout"

\* C4: whenever a polling loop passes its deadline the get rejects with the
\* timeout error, under both policies: the error is not logged and no
\* Library is returned.
C4_TimeoutPropagates ==
    \A t \in Tasks :
        frame[t].elapsed > timeout[storeOf[t]]
        => /\ pc[t] = "idle"
           /\ call[t].kind = "get"
           /\ call[t].result = "timeout"
           /\ ~call[t].logged
           /\ lib[t] = prev[t].lib

C4_Witness ==
    /\ Completed(1, "get") /\ call[1].result = "timeout"
    /\ ~options[storeOf[1]].throwSyncErrors
    /\ frame[1].ci = 3
    /\ pc[1] = "idle" /\ frame[1].elapsed > timeout[storeOf[1]]

\* C5 (as claimed): once Store.remove(id) has ended, whatever the outcome
\* of the drop and whatever the policy, id is not in Store.libraries.
C5_RemoveAlwaysUnregisters ==
    \A t \in Tasks :
        ( /\ Completed(t, "remove_library")
          /\ call[t].result # "none"
          /\ call[t].err # "connection" )
        => call[t].id \notin Range(libraries[storeOf[t]])

\* C5 (amended): the step that ends the drop removes id from
\* Store.libraries when the drop succeeded or the policy is "log"; under
\* "throw" a failed drop is rethrown and Store.libraries stays as it was.
C5_RemoveUnregistersUnlessThrown ==
    [][ \A t \in Tasks :
          (pc[t] = "dropScope" /\ pc'[t] = "idle")
          => IF call'[t].err = "none" \/ ~options[storeOf[t]].throwSyncErrors
             THEN /\ call'[t].result = "ok"
                  /\ libraries'[storeOf[t]] =
                        Filter(libraries[storeOf[t]], call[t].id)
             ELSE /\ call'[t].result = "error"
                  /\ libraries' = libraries ]_vars

C5_Witness ==
    /\ Completed(1, "remove_library") /\ call[1].result = "ok"
    /\ call[1].logged /\ call[1].err = "fault"
    /\ prev[1].call.kind = "get" /\ prev[1].call.id = call[1].id
    /\ libraries[1] = <<>>

\* the steps of Store.libraries
NoDuplicates(seq) == \A i, j \in 1..Len(seq) : seq[i] = seq[j] => i = j

C6_RegistryStep ==
    \A s \in Stores :
        \/ libraries'[s] = libraries[s]
        \/ \E t \in Tasks :
             /\ storeOf[t] = s /\ pc[t] = "idle" /\ call'[t].kind = "get"
             /\ call'[t].id \notin Range(libraries[s])
             /\ libraries'[s] = Append(libraries[s], call'[t].id)
        \/ \E t \in Tasks :
             /\ storeOf[t] = s /\ pc[t] = "dropScope"
             /\ libraries'[s] = Filter(libraries[s], call[t].id)

C6_GetRegisters ==
    \A t \in Tasks :
        (pc[t] = "idle" /\ nops'[t] # nops[t] /\ call'[t].kind = "get")
        => /\ call'[t].id \in Range(libraries'[storeOf[t]])
           /\ call'[t].id \in Range(libraries[storeOf[t]])
                => libraries'[storeOf[t]] = libraries[storeOf[t]]

\* C6: Store.libraries never holds an identifier twice; a get appends its
\* identifier when it is absent and leaves the list alone otherwise, and
\* the only other change is the removal of one identifier, the others
\* keeping their order.
C6_RegistryOrderedSet ==
    /\ [](\A s \in Stores : NoDuplicates(libraries[s]))
    /\ [][C6_RegistryStep /\ C6_GetRegisters]_vars

C6_Witness ==
    /\ Len(libraries[1]) = 2
    /\ call[1].kind = "get" /\ call[1].id = libraries[1][1]
    /\ prev[1].call.kind = "get" /\ prev[1].call.id = libraries[1][2]

\* a successful get right after a remove of the same library that returned
AfterRemove(t) ==
    /\ Completed(t, "get") /\ call[t].result = "ok"
    /\ prev[t].call.kind = "remove_library"
    /\ prev[t].call.id = call[t].id
    /\ prev[t].call.result = "ok"

FreshLibrary(t) ==
    /\ lib[t].name = "" /\ lib[t].version = 0
    /\ \A d \in DocsOfScope(createScopeNameFromPrefix(call[t].id)) :
          d.coll \notin {"items", "collections"}

Unregistered(t) ==
    (Completed(t, "remove_library") /\ call[t].result = "ok")
    => call[t].id \notin Range(libraries[storeOf[t]])

\* C7 (as claimed): once Store.remove(id) has returned, id is not in
\* Store.libraries, and a get of id that follows and succeeds returns
\* name "" and version 0 and finds no document in items and collections.
C7_RemoveThenGetIsFresh ==
    \A t \in Tasks : Unregistered(t) /\ (AfterRemove(t) => FreshLibrary(t))

\* C7 (amended): the same, for a remove whose drop the bucket did not fail
\* (the scope was dropped, or there was none).
C7_DroppedThenGetIsFresh ==
    \A t \in Tasks :
        /\ Unregistered(t)
        /\ (AfterRemove(t) /\ prev[t].call.err # "fault") => FreshLibrary(t)

C7_Witness ==
    /\ AfterRemove(1) /\ prev[1].call.err = "none"
    /\ prev[1].lib.name = DefaultUserLibraryName /\ prev[1].lib.version = 1
    /\ lib[1].name = ""

\* a successful get right after a completed save of the same library
AfterSave(t) ==
    /\ Completed(t, "get") /\ call[t].result = "ok" /\ ~call[t].logged
    /\ prev[t].call.kind = "save"
    /\ prev[t].call.id = call[t].id
    /\ prev[t].call.result = "ok"

\* C8: a get that follows a completed save(n, v) of the same library with
\* n not empty, and that succeeds without a logged failure, returns
\* name = n and version = v.
C8_MetadataRoundTrip ==
    \A t \in Tasks :
        (AfterSave(t) /\ prev[t].call.name # "")
        => /\ lib[t].name = prev[t].call.name
           /\ lib[t].version = prev[t].call.version

C8_Witness ==
    /\ AfterSave(1) /\ prev[1].call.name = GroupName
    /\ lib[1].name = GroupName
    /\ lib[1].version # prev[1].lib.version
    /\ lib[1].name # prev[1].lib.name

\* a library without metadata, and the documents save must not touch
NeverSynchronized(t) ==
    \A d \in DocsOfScope(createScopeNameFromPrefix(call[t].id)) : d.coll # "meta"

ObjectDocs == {d \in docs : d.coll \in {"items", "collections"}}

C9_State ==
    \A t \in Tasks :
        /\ (Completed(t, "get") /\ call[t].result = "ok" /\ NeverSynchronized(t))
             => lib[t].name = "" /\ lib[t].version = 0
        /\ (AfterSave(t) /\ prev[t].call.name = "")
             => /\ lib[t].name = options[storeOf[t]].userLibraryName
                /\ lib[t].name \in {DefaultUserLibraryName, CustomUserLibraryName}
                /\ lib[t].version = prev[t].call.version

C9_SaveKeepsObjects ==
    \A t \in Tasks :
        (call[t].kind = "save" /\ pc[t] \in {"upsertVersion", "upsertName"}
         /\ pc'[t] # pc[t])
        => ObjectDocs' = ObjectDocs

\* C9: a get of a library whose meta partition holds no record returns
\* name "" and version 0; a get that follows a completed save("", v)
\* returns the display name of the options (never "") and version v; and
\* the writes of save leave the documents of items and collections alone.
C9_PersonalLibrarySave ==
    []C9_State /\ [][C9_SaveKeepsObjects]_vars

C9_Witness ==
    /\ AfterSave(1) /\ prev[1].call.name = "" /\ prev[1].call.version = 1
    /\ prev[1].lib.name = "" /\ prev[1].lib.version = 0
    /\ lib[1].name = DefaultUserLibraryName /\ lib[1].version = 1
    /\ DocsAt(createScopeNameFromPrefix(UserLib), "items", "A") # {}

\* documents per key, and the outcome of a completed add / remove
OneDocumentPerKey ==
    \A d, e \in docs :
        (d.scope = e.scope /\ d.coll = e.coll /\ d.key = e.key) => d = e

Added(t, kind, c) ==
    (Completed(t, kind) /\ call[t].result = "ok" /\ ~call[t].logged)
    => DocsAt(LibScope(t), c, call[t].key)
         = {Document(LibScope(t), c, call[t].key, call[t].content, "")}

Removed(t, kind, c) ==
    (Completed(t, kind) /\ call[t].result = "ok" /\ ~call[t].logged)
    => \A k \in Range(call[t].keys) : DocsAt(LibScope(t), c, k) = {}

C10_State ==
    /\ OneDocumentPerKey
    /\ \A t \in Tasks :
         /\ Added(t, "add", "items")
         /\ Added(t, "add_collection", "collections")
         /\ Removed(t, "remove", "items")
         /\ Removed(t, "remove_collections", "collections")

DocsAtNext(sc, c, k) == {d \in docs' : d.scope = sc /\ d.coll = c /\ d.key = k}

C10_Frame ==
    \A sc \in ScopeNames, c \in {"items", "collections"}, k \in Keys :
        DocsAtNext(sc, c, k) # DocsAt(sc, c, k)
        => \E t \in Tasks :
             \/ /\ pc[t] = "idle" /\ nops'[t] # nops[t]
                /\ call'[t].kind = (IF c = "items" THEN "add" ELSE "add_collection")
                /\ call'[t].key = k
             \/ /\ pc[t] = "removeKey" /\ RemoveTarget(t) = c
                /\ Head(frame[t].keys) = k
             \/ pc[t] = "dropScope"

\* C10: a partition never holds two documents under one key; right after
\* an add (add_collection) that succeeded the key holds exactly the
\* document added; right after a remove that met no failure the keys hold
\* nothing; and the documents under a key change only in a step of an add
\* of that key, of a remove of that key, or of the drop of the scope.
C10_UpsertSemantics ==
    []C10_State /\ [][C10_Frame]_vars

C10_Witness ==
    /\ Completed(1, "add") /\ call[1].result = "ok" /\ ~call[1].logged
    /\ prev[1].call.kind = "add" /\ prev[1].call.result = "ok"
    /\ ~prev[1].call.logged
    /\ prev[1].call.key = call[1].key
    /\ prev[1].call.content # call[1].content
    /\ Cardinality(DocsAt(LibScope(1), "items", call[1].key)) = 1

\* the delete at the head of a remove call meets no document: the handle
\* is usable and the key holds nothing
DeletesNothing(t) ==
    /\ pc[t] = "removeKey"
    /\ WriteAnswer(t, RemoveTarget(t)) = "ok"
    /\ DocsAt(LibScope(t), RemoveTarget(t), Head(frame[t].keys)) = {}

C11_Step ==
    \A t \in Tasks :
        (DeletesNothing(t) /\ frame'[t] # frame[t] /\ faults' = faults)
        => /\ docs' = docs
           /\ call'[t].result # "error"
           /\ call'[t].err = call[t].err
           /\ call'[t].logged = call[t].logged
           /\ frame'[t].keys = Tail(frame[t].keys)

C11_State ==
    \A t \in Tasks :
        ( /\ Completed(t, "remove") \/ Completed(t, "remove_collections")
          /\ call[t].err = "none" )
        => call[t].result = "ok" /\ ~call[t].logged

\* C11: under both policies, a delete of remove / remove_collections that
\* is answered 'document not found' raises nothing and logs nothing, the
\* documents of the bucket stay as they were, and the call goes on with
\* the next key; a call that met no other failure returns normally.
C11_DeleteIdempotence ==
    []C11_State /\ [][C11_Step]_vars

C11_Witness ==
    /\ Completed(1, "remove_collections") /\ call[1].result = "ok"
    /\ options[storeOf[1]].throwSyncErrors
    /\ prev[1].call.kind = "get"
    /\ call[1].keys = <<"B", "A">> /\ call[1].issued = {"A", "B"}
    /\ call[1].err = "none" /\ ~call[1].logged

Removal(t) == Completed(t, "remove") \/ Completed(t, "remove_collections")

\* C12 (as claimed): when a remove / remove_collections call has ended,
\* whatever failures its deletes met, a delete was issued for every key of
\* the batch.
C12_EveryKeyIssued ==
    \A t \in Tasks : Removal(t) => call[t].issued = Range(call[t].keys)

\* C12 (amended): under the "log" policy a call that has ended returned
\* normally and issued a delete for every key of the batch; under the
\* "throw" policy it either did the same without meeting a failure, or it
\* rethrew the failure of one delete and issued no delete for the keys
\* after that one.
C12_BatchIndependentWhenLogged ==
    \A t \in Tasks :
        Removal(t)
        => \/ /\ call[t].result = "ok"
              /\ call[t].issued = Range(call[t].keys)
              /\ options[storeOf[t]].throwSyncErrors => call[t].err = "none"
           \/ /\ call[t].result = "error"
              /\ options[storeOf[t]].throwSyncErrors
              /\ call[t].err \notin {"none", "notfound"}
              /\ call[t].issued \cap Range(Tail(frame[t].keys)) = {}
              /\ call[t].issued \cup Range(Tail(frame[t].keys))
                    = Range(call[t].keys)

C12_Witness ==
    /\ Completed(1, "remove") /\ call[1].result = "ok"
    /\ ~options[storeOf[1]].throwSyncErrors
    /\ prev[1].call.kind = "get"
    /\ call[1].keys = <<"B", "A">> /\ call[1].issued = {"A", "B"}
    /\ call[1].err = "fault" /\ call[1].logged
    /\ DocsAt(LibScope(1), "items", "A") = {}

MutationKinds == {"add", "add_collection", "remove", "remove_collections", "save"}

\* the outcome the policy prescribes for a call that met a write failure
FollowsPolicy(t) ==
    IF options[storeOf[t]].throwSyncErrors
    THEN call[t].result = "error" /\ ~call[t].logged
    ELSE call[t].result = "ok" /\ call[t].logged

\* C13 (as claimed): a mutation call (add, add_collection, remove,
\* remove_collections, save) that has ended after one of its writes failed
\* rejected under the "throw" policy, and under the "log" policy logged the
\* failure and returned normally.
C13_WritePolicy ==
    \A t \in Tasks :
        (pc[t] = "idle" /\ call[t].kind \in MutationKinds
         /\ call[t].err # "none")
        => FollowsPolicy(t)

\* C14 (as claimed): couchbase.connect completes at most once per Store,
\* and the callers of one Store that were handed a cluster were all handed
\* the same one, which is the one the Store holds.
C14_SingleConnection ==
    /\ \A s \in Stores : connects[s] <= 1
    /\ \A t, u \in Tasks :
         (storeOf[t] = storeOf[u] /\ frame[t].cluster # 0 /\ frame[u].cluster # 0)
         => /\ frame[t].cluster = frame[u].cluster
            /\ frame[t].cluster = cluster[storeOf[t]]

\* the record a task suspended in the metadata load is reading
MetaKey(t) == IF pc[t] = "readName" THEN "name" ELSE "version"

C15_Step ==
    \A t \in Tasks :
        (pc[t] \in {"readName", "readVersion"} /\ pc'[t] = "idle")
        => IF faults' = faults /\ MetaAnswer(t, MetaKey(t)) = "ok"
           THEN call'[t].result = "ok" /\ ~call'[t].logged
           ELSE IF faults' = faults /\ MetaAnswer(t, MetaKey(t)) = "notfound"
           THEN /\ call'[t].result = "ok" /\ ~call'[t].logged
                /\ lib'[t].name = "" /\ lib'[t].version = 0
                /\ lib'[t].cbCollections = CollectionNameSet
           ELSE IF options[storeOf[t]].throwSyncErrors
           THEN /\ call'[t].result = "error" /\ ~call'[t].logged
                /\ lib'[t] = lib[t]
           ELSE /\ call'[t].result = "ok" /\ call'[t].logged
                /\ lib'[t] = self[t]
                /\ lib'[t].cbCollections = CollectionNameSet

\* C15: the step that ends the metadata load of init. When the read is
\* answered 'document not found', under both policies the get succeeds,
\* nothing is logged and the Library has name "" and version 0. When the
\* read fails otherwise, the get rejects under "throw"; under "log" the
\* failure is logged and the get returns the Library.
C15_MetadataLoad ==
    [][C15_Step]_vars

C15_Witness ==
    /\ Completed(1, "get") /\ call[1].result = "ok"
    /\ call[1].logged /\ call[1].err = "fault"
    /\ ~options[storeOf[1]].throwSyncErrors
    /\ lib[1].cbCollections = CollectionNameSet
    /\ prev[1].call.kind = "get" /\ prev[1].call.result = "ok"
    /\ prev[1].call.err = "none" /\ ~prev[1].call.logged
    /\ prev[1].lib.name = "" /\ prev[1].lib.version = 0
    /\ DocsAt(createScopeNameFromPrefix(UserLib), "meta", "name") = {}
    /\ DocsAt(createScopeNameFromPrefix(UserLib), "items", "A") # {}

C16_State ==
    \A t \in Tasks :
        /\ lib[t] # NoLib => lib[t].cbCollections = CollectionNameSet
        /\ (Completed(t, "get") /\ call[t].result = "ok")
             => lib[t].id = call[t].id
        /\ (Completed(t, "get") /\ call[t].result \in {"error", "timeout"})
             => lib[t] = prev[t].lib
        /\ call[t].err # "nohandle"

C16_Step ==
    \A t \in Tasks :
        /\ lib'[t] # lib[t]
             => /\ pc[t] \in {"readName", "readVersion"}
                /\ self[t].cbCollections = CollectionNameSet
                /\ call'[t].result = "ok"
        /\ (pc[t] \in {"upsertVersion", "upsertName"} /\ pc'[t] # pc[t])
             => "meta" \in lib[t].cbCollections

\* C16: a Library is handed to the caller only by a get that succeeded,
\* from the metadata load that follows the provisioning of the three
\* partitions, and it holds a handle for each of items, collections and
\* meta; a get that rejected hands over nothing; and no write of a
\* mutation is issued through a handle the Library lacks.
C16_ReturnedLibraryIsReady ==
    []C16_State /\ [][C16_Step]_vars

C16_Witness ==
    /\ Completed(1, "save") /\ call[1].result = "ok"
    /\ prev[1].call.kind = "get" /\ prev[1].call.result = "ok"
    /\ prev[1].lib = lib[1]
    /\ lib[1].cbCollections = CollectionNameSet
    /\ DocsAt(LibScope(1), "meta", "name") # {}

IsUserId(id)  == \E n \in NumericIds : id = UserId(n)
IsGroupId(id) == \E n \in NumericIds : id = GroupId(n)

\* C17 (as claimed): getType returns "user" for an identifier users/<id>
\* and "group" for an identifier groups/<id>, and the call touches neither
\* the bucket nor the Store.
C17_GetTypeByPrefix ==
    \A t \in Tasks :
        call[t].kind = "getType"
        => /\ IsUserId(call[t].id) => call[t].returned = "user"
           /\ IsGroupId(call[t].id) => call[t].returned = "group"
           /\ pc[t] = "idle" /\ faults = 0 /\ scopes = {}

Named(t) == call[t].kind = "createScopeNameFromPrefix"

\* C18: for an identifier users/<id> the default naming returns u<id>, for
\* groups/<id> it returns g<id>; two calls with the same identifier return
\* the same name, and two calls with different identifiers of these forms
\* return different names.
C18_DefaultNaming ==
    /\ \A t \in Tasks, n \in NumericIds :
         Named(t)
         => /\ call[t].id = UserId(n) => call[t].returned = <<"u">> \o n
            /\ call[t].id = GroupId(n) => call[t].returned = <<"g">> \o n
    /\ \A t, u \in Tasks :
         (Named(t) /\ Named(u))
         => (call[t].id = call[u].id) = (call[t].returned = call[u].returned)

C18_Witness ==
    /\ Named(1) /\ Named(2)
    /\ call[1].id = UserId(<<"1", "9">>) /\ call[2].id = GroupId(<<"1", "9">>)
    /\ call[1].returned = <<"u", "1", "9">>
    /\ call[2].returned = <<"g", "1", "9">>

\* C19 (as claimed): when a get has succeeded, the primary index of each
\* of items, collections and meta of the library is online, also when the
\* creation of an index was answered 'already exists'.
C19_IndexesOnlineAfterInit ==
    \A t \in Tasks :
        (Completed(t, "get") /\ call[t].result = "ok")
        => \A c \in CollectionNameSet :
              indexes[createScopeNameFromPrefix(call[t].id), c] = "online"

\* C20 (as claimed): a get that ended with the timeout error of the
\* handle polling obtained no handle in any attempt: an attempt that
\* succeeds is never followed by that error.
C20_TimeoutOnlyWithoutHandle ==
    \A t \in Tasks :
        (Completed(t, "get") /\ call[t].err = "timeout creating collection")
        => ~frame[t].collection

CreateSteps == {"createScope", "createCollection", "createIndex"}

\* what the create call a task is suspended in finds already there
AlreadyThere(t) ==
    \/ pc[t] = "createScope" /\ InitScope(t) \in scopes
    \/ /\ pc[t] = "createCollection" /\ InitScope(t) \in scopes
       /\ colls[InitScope(t), InitColl(t)] # "none"
    \/ /\ pc[t] = "createIndex" /\ colls[InitScope(t), InitColl(t)] = "live"
       /\ indexes[InitScope(t), InitColl(t)] # "none"

\* the step that follows a create call in the provisioning
AfterCreate(t) ==
    IF pc[t] = "createScope" THEN {"createCollection"}
    ELSE IF pc[t] = "createCollection" THEN {"pollCollection"}
    ELSE IF AlreadyThere(t) THEN {"createScope", "readName"}
    ELSE {"pollIndex"}

C21_Step ==
    \A t \in Tasks :
        (pc[t] \in CreateSteps /\ pc'[t] # pc[t])
        => /\ faults' # faults
                => /\ pc'[t] = "idle" /\ call'[t].result = "error"
                   /\ call'[t].err = "fault" /\ ~call'[t].logged
                   /\ lib'[t] = lib[t]
           /\ (faults' = faults /\ AlreadyThere(t))
                => /\ pc'[t] \in AfterCreate(t)
                   /\ call'[t].result = "none" /\ call'[t].sawExists
           /\ pc'[t] = "idle"
                => /\ call'[t].result = "error" /\ ~call'[t].logged
                   /\ call'[t].err \notin {"none", "exists"}

\* C21: in the provisioning of Store.get, under both policies, a create of
\* the scope, of a collection or of a primary index that the bucket fails
\* ends the get with that error, not logged and with no Library returned;
\* a create that finds its object already there ends nothing and the
\* provisioning goes on with its next step; no get ends with an 'already
\* exists' error.
C21_CreateFailuresAbort ==
    [](\A t \in Tasks : call[t].err # "exists") /\ [][C21_Step]_vars

C21_Witness ==
    /\ Completed(1, "get") /\ call[1].result = "error" /\ call[1].err = "fault"
    /\ ~options[storeOf[1]].throwSyncErrors
    /\ call[1].sawExists /\ ~call[1].logged
    /\ frame[1].ci = 2 /\ self[1].cbCollections = {"items"}
    /\ lib[1] = NoLib

\* C22 (as claimed): when a get has succeeded without a logged failure,
\* the Library holds the version of the 'version' record of the meta
\* partition if there is one, and the name of the 'name' record if there
\* is one, also when only one of the two records is there.
C22_StoredMetadataLoaded ==
    \A t \in Tasks :
        (Completed(t, "get") /\ call[t].result = "ok" /\ ~call[t].logged)
        => /\ \A d \in DocsAt(createScopeNameFromPrefix(call[t].id),
                              "meta", "version") : lib[t].version = d.num
           /\ \A d \in DocsAt(createScopeNameFromPrefix(call[t].id),
                              "meta", "name") : lib[t].name = d.str

\* during and after a mutation call the caller's Library is the one it
\* held when the call began
C23_Frame ==
    \A t \in Tasks : call[t].kind \in MutationKinds => lib[t] = prev[t].lib

\* C23: add, add_collection, remove, remove_collections and save leave the
\* fields of the caller's Library as they were when the call began, so
\* after any sequence of them the Library still holds the name and the
\* version loaded by the initialization, whatever save wrote to the meta
\* partition.
C23_SaveLeavesLibraryUnchanged ==
    /\ C23_Frame
    /\ \A t \in Tasks : lib[t] \in {NoLib, ReadyLibrary}

C23_Witness ==
    /\ Completed(1, "save") /\ call[1].result = "ok"
    /\ call[1].name = GroupName /\ call[1].version = 1
    /\ prev[1].call.kind = "add"
    /\ DocsAt(LibScope(1), "meta", "version")
          = {Document(LibScope(1), "meta", "version", 1, "")}
    /\ DocsAt(LibScope(1), "meta", "name")
          = {Document(LibScope(1), "meta", "name", 0, GroupName)}
    /\ lib[1].name = "" /\ lib[1].version = 0

\* C24: from the step that starts Store.get(id), before the connection and
\* the provisioning, id is in Store.libraries, and it still is when the
\* get has ended, also when the get raised a create failure, a timeout or
\* a connection error.
C24_RegisteredBeforeInit ==
    \A t \in Tasks :
        call[t].kind = "get" => call[t].id \in Range(libraries[storeOf[t]])

C24_Witness ==
    /\ Completed(1, "get") /\ call[1].result = "error"
    /\ call[1].err = "connection"
    /\ prev[1].call.kind = "none" /\ lib[1] = NoLib
    /\ cluster[1] = 0 /\ scopes = {}
    /\ libraries[1] = <<UserLib>>

====
